---- MODULE Spec2Model ----
(***************************************************************************)
(* Model of the parallel test orchestration of test.py (ns-3): the main    *)
(* thread of run_tests() (build, rerun filter, dispatch, collection loop,  *)
(* join, end marker, return value), the worker_thread.run() loop, the      *)
(* SIGINT hook, and the units run as subprocesses.                         *)
(***************************************************************************)
EXTENDS Integers, Sequences, FiniteSets, TLC

----------------------------------------------------------------------------
(* Bounds of the model *)

\* host processor count: one worker thread is started per processor
MaxProcessors == 2
\* number of units discovery finds: suites, native and scripted examples
MaxUnits == 3
\* number of records in the report of the previous run
MaxPriorRecords == 3

----------------------------------------------------------------------------
(* Names and literals of the program *)

\* names the test-runner lists; "routing-click" is in core_valgrind_skip_tests
SuitePool == <<"routing-click", "tcp-suite", "wifi-suite", "core-suite">>
ExamplePool == <<"udp-echo", "first", "second", "third">>
PyExamplePool == <<"mixed-wireless.py", "first.py", "second.py", "third.py">>

core_valgrind_skip_tests == {"routing-click"}

Fullness == {"QUICK", "EXTENSIVE", "TAKES_FOREVER"}

\* field of a record that the writer did not emit
NoField == "<none>"

\* skip reasons, as the dispatcher words them
ReasonCrashesValgrind == "crashes valgrind"
ReasonSkipValgrind == "skip in valgrind runs"
ReasonRerun == "didn't fail in the previous run"
ReasonBindings == "requires Python bindings"
ReasonQuick(fullness) ==
    CASE fullness = "EXTENSIVE" -> "skip EXTENSIVE examples when QUICK run selected"
      [] fullness = "TAKES_FOREVER" -> "skip TAKES_FOREVER examples when QUICK run selected"
      [] OTHER -> "skip QUICK examples when QUICK run selected"
ReasonExtensive(fullness) ==
    CASE fullness = "TAKES_FOREVER" -> "skip TAKES_FOREVER examples when EXTENSIVE run selected"
      [] fullness = "EXTENSIVE" -> "skip EXTENSIVE examples when EXTENSIVE run selected"
      [] OTHER -> "skip QUICK examples when EXTENSIVE run selected"

\* exit codes a unit's process may return (139 and -11: killed by SIGSEGV)
ExitCodes == {0, 1, 2, 139, -11}

\* what a suite leaves behind: its exit code and the state of the result
\* document at tmp_file_name.  A suite that runs to completion exits 0 or 1
\* (2 under valgrind) and writes the document; a crash exits with another
\* code; under sanitizers it may exit 1, or 2 under valgrind, before writing
\* the document.
SuiteOutcomes ==
    { <<0, "PASS">>, <<1, "FAIL">>, <<2, "PASS">>, <<139, "absent">>,
      <<1, "absent">>, <<1, "malformed">>, <<2, "absent">> }

Range(s) == { s[k] : k \in 1..Len(s) }

----------------------------------------------------------------------------
(* class Job *)

Job ==
    [ is_break |-> FALSE, is_skip |-> FALSE, skip_reason |-> "",
      is_example |-> FALSE, is_pyexample |-> FALSE,
      display_name |-> "", returncode |-> 0, elapsed_time |-> FALSE ]

----------------------------------------------------------------------------
(* The Run Report: a sequence of written items *)

StartMarker == [ tag |-> "<Results>", Name |-> NoField, Result |-> NoField,
                 Reason |-> NoField, Time |-> FALSE ]
EndMarker == [ tag |-> "</Results>", Name |-> NoField, Result |-> NoField,
               Reason |-> NoField, Time |-> FALSE ]

Record(tag, name, result, reason, time) ==
    [ tag |-> tag, Name |-> name, Result |-> result, Reason |-> reason,
      Time |-> time ]

----------------------------------------------------------------------------
(* State *)

VARIABLES
    args,                 \* parsed command line
    ENABLE_PYTHON_BINDINGS,
    host_processors,      \* what os.sysconf("SC_NPROCESSORS_ONLN") answers
    suite_list,           \* names the test-runner lists
    example_tests,        \* entries of examples-to-run.py: cpp_examples
    python_tests,         \* entries of examples-to-run.py: python_examples
    previous_results,     \* the *-results.xml files of TMP_OUTPUT_DIR
    pc,                   \* position of the main thread in run_tests()
    k,                    \* index of the dispatch loop the main thread is in
    retval,               \* value run_tests() returns or passes to exit()
    previously_run_tests_to_skip,
    testpy_output_dir,    \* TRUE while the run's temp directory exists
    tmp_files,            \* result document at each suite's tmp_file_name
    xml_results_file,     \* the run's report, as written so far
    input_queue,
    output_queue,
    threads,              \* position of each worker_thread in run()
    thread_job,           \* the job each worker holds while it runs it
    thread_exit,          \* global set by sigint_hook
    jobs,
    total_tests,
    i,                    \* results the collection loop has taken
    passed_tests,
    failed_tests,
    crashed_tests,
    valgrind_errors,
    skipped_tests,
    failed_jobs,
    launched,             \* subprocesses launched so far, per display name
    dispatched,           \* the jobs put on input_queue so far, as put
    enqueued,             \* everything put on input_queue so far, sentinels too
    interrupted,          \* display names given back with is_break set
    in_flight             \* display names running when thread_exit was set

config == <<args, ENABLE_PYTHON_BINDINGS, host_processors, suite_list,
            example_tests, python_tests, previous_results>>
counters == <<passed_tests, failed_tests, crashed_tests, valgrind_errors,
              skipped_tests, failed_jobs>>
queues == <<input_queue, output_queue, enqueued>>
workers == <<threads, thread_job, launched, interrupted, in_flight>>
dispatch == <<jobs, total_tests, dispatched>>
files == <<previously_run_tests_to_skip, testpy_output_dir, tmp_files,
           xml_results_file>>

vars == <<config, pc, k, retval, files, queues, workers, thread_exit,
          dispatch, i, counters>>

Names == Range(SuitePool) \cup Range(ExamplePool) \cup Range(PyExamplePool)

----------------------------------------------------------------------------
(* load_previously_successful_tests() *)

\* basename of this run's report: date_and_time, later than every report
\* an earlier run left
CurrentBasename == 3

\* glob.glob(f"{TMP_OUTPUT_DIR}/*-results.xml"): the reports of earlier runs
\* and, once it is created, the report of this run
ResultsGlob ==
    previous_results \cup
        (IF xml_results_file # <<>>
         THEN { [ basename |-> CurrentBasename, contents |-> xml_results_file ] }
         ELSE {})

\* LatestResultFile without reverse=True
LatestResultFile_Oldest(results) ==
    CHOOSE f \in results : \A g \in results : f.basename <= g.basename

\* sorted(previous_results, key=basename, reverse=True)[0]
LatestResultFile(results) ==
    CHOOSE f \in results : \A g \in results : g.basename <= f.basename

\* ParseOK not asking for the root end marker
ParseOK_EndMarkerOptional(contents) ==
    /\ Len(contents) >= 1
    /\ contents[1] = StartMarker
    /\ \A n \in 2..Len(contents) : contents[n].tag \in {"Test", "Example", "</Results>"}

\* ET.parse() accepts the file: a root start marker, well-formed records, the
\* root end marker, and nothing after it
ParseOK(contents) ==
    /\ Len(contents) >= 2
    /\ contents[1] = StartMarker
    /\ contents[Len(contents)] = EndMarker
    /\ \A n \in 2..(Len(contents) - 1) : contents[n].tag \in {"Test", "Example"}

\* PreviouslySuccessful with the filter on the result also keeping FAIL
PreviouslySuccessful_FailKept(contents, test_type) ==
    LET found == SelectSeq(contents, LAMBDA x : x.tag = test_type)
        kept == SelectSeq(found, LAMBDA x : x.Result \in {"PASS", "SKIP", "FAIL"})
    IN  [ n \in 1..Len(kept) |-> kept[n].Name ]

\* [x.find("Name").text for x in findall(test_type) if Result in PASS, SKIP]
PreviouslySuccessful(contents, test_type) ==
    LET found == SelectSeq(contents, LAMBDA x : x.tag = test_type)
        kept == SelectSeq(found, LAMBDA x : x.Result \in {"PASS", "SKIP"})
    IN  [ n \in 1..Len(kept) |-> kept[n].Name ]

\* the value returned; exited is TRUE where the function calls exit(-1)
load_previously_successful_tests(results) ==
    IF results = {} THEN [ exited |-> TRUE, test |-> <<>>, example |-> <<>> ]
    ELSE LET latest_result_file == LatestResultFile(results) IN
         IF ~ParseOK(latest_result_file.contents)
         THEN [ exited |-> TRUE, test |-> <<>>, example |-> <<>> ]
         ELSE [ exited |-> FALSE,
                test |-> PreviouslySuccessful(latest_result_file.contents, "Test"),
                example |-> PreviouslySuccessful(latest_result_file.contents, "Example") ]

----------------------------------------------------------------------------
(* The jobs run_tests() builds in its three dispatch loops *)

\* FullnessSkip with the EXTENSIVE branch not letting QUICK entries through
FullnessSkip_QuickExcluded(job, fullness) ==
    IF args.fullness = "QUICK" /\ fullness # "QUICK"
    THEN [job EXCEPT !.is_skip = TRUE, !.skip_reason = ReasonQuick(fullness)]
    ELSE IF args.fullness = "EXTENSIVE" /\ fullness # "EXTENSIVE"
    THEN [job EXCEPT !.is_skip = TRUE, !.skip_reason = ReasonExtensive(fullness)]
    ELSE job

\* the fullness rule of the example loops: the job after it
FullnessSkip(job, fullness) ==
    IF args.fullness = "QUICK" /\ fullness # "QUICK"
    THEN [job EXCEPT !.is_skip = TRUE, !.skip_reason = ReasonQuick(fullness)]
    ELSE IF args.fullness = "EXTENSIVE" /\ fullness # "EXTENSIVE" /\ fullness # "QUICK"
    THEN [job EXCEPT !.is_skip = TRUE, !.skip_reason = ReasonExtensive(fullness)]
    ELSE job

\* rerun rule of the suite loop and of the native example loop
RerunSkip(job, previously) ==
    IF args.rerun_failed /\ job.display_name \in Range(previously)
    THEN [job EXCEPT !.is_skip = TRUE, !.skip_reason = ReasonRerun]
    ELSE job

SuiteJob(test, previously) ==
    LET j0 == [Job EXCEPT !.display_name = test]
        j1 == IF args.valgrind /\ test \in core_valgrind_skip_tests
              THEN [j0 EXCEPT !.is_skip = TRUE, !.skip_reason = ReasonCrashesValgrind]
              ELSE j0
    IN  RerunSkip(j1, previously.test)

ExampleJob(entry, previously) ==
    LET j0 == [Job EXCEPT !.is_example = TRUE, !.display_name = entry.name]
        j1 == IF args.valgrind /\ ~entry.do_valgrind_run
              THEN [j0 EXCEPT !.is_skip = TRUE, !.skip_reason = ReasonSkipValgrind]
              ELSE j0
        j2 == RerunSkip(j1, previously.example)
    IN  FullnessSkip(j2, entry.fullness)

PyExampleJob(entry) ==
    LET j0 == [Job EXCEPT !.is_pyexample = TRUE, !.display_name = entry.name]
        j1 == IF args.valgrind
              THEN [j0 EXCEPT !.is_skip = TRUE, !.skip_reason = ReasonSkipValgrind]
              ELSE j0
        j2 == IF ~ENABLE_PYTHON_BINDINGS
              THEN [j1 EXCEPT !.is_skip = TRUE, !.skip_reason = ReasonBindings]
              ELSE j1
    IN  FullnessSkip(j2, entry.fullness)

\* base names of the scripts the build can run (lines 1277-1278)
ns3_runnable_scripts == Range(PyExamplePool)

\* ExplicitPyExampleJob with the valgrind and bindings rules of the catalog
\* loop
ExplicitPyExampleJob_Conditional(pyexample) ==
    LET j0 == [Job EXCEPT !.is_pyexample = TRUE, !.display_name = pyexample]
        j1 == IF args.valgrind
              THEN [j0 EXCEPT !.is_skip = TRUE, !.skip_reason = ReasonSkipValgrind]
              ELSE j0
    IN  IF ~ENABLE_PYTHON_BINDINGS
        THEN [j1 EXCEPT !.is_skip = TRUE, !.skip_reason = ReasonBindings]
        ELSE j1

\* the job of the scripted example named with --pyexample (lines 1915-1923)
ExplicitPyExampleJob(pyexample) ==
    [Job EXCEPT !.is_pyexample = TRUE, !.display_name = pyexample]

Sentinel == [Job EXCEPT !.is_break = TRUE]

\* processors after the process_limit test (0: no --jobs option)
Processors(host, limit) ==
    IF limit # 0
    THEN IF host < limit THEN host ELSE limit
    ELSE host

----------------------------------------------------------------------------
(* The collection loop of run_tests() *)

\* Status with the exit code 2 branch left out
Status_TwoIsCrash(job) ==
    IF job.is_skip THEN "SKIP"
    ELSE IF job.returncode = 0 THEN "PASS"
    ELSE IF job.returncode = 1 THEN "FAIL"
    ELSE "CRASH"

\* status of a collected job that is no break job
Status(job) ==
    IF job.is_skip THEN "SKIP"
    ELSE IF job.returncode = 0 THEN "PASS"
    ELSE IF job.returncode = 1 THEN "FAIL"
    ELSE IF job.returncode = 2 THEN "VALGR"
    ELSE "CRASH"

IsExampleJob(job) == job.is_example \/ job.is_pyexample

\* ReadsTmpFile without the test of the exit code
ReadsTmpFile_AnyExitCode(job) ==
    ~IsExampleJob(job) /\ ~job.is_skip

\* the suite reads its temp result document: exit code 0, 1 or 2, not skipped
ReadsTmpFile(job) ==
    ~IsExampleJob(job) /\ ~job.is_skip /\ job.returncode \in {0, 1, 2}

\* text no XML parser accepts as a record
Garbage == Record("#text", NoField, NoField, NoField, FALSE)

\* Appended writing the Skip record of a suite without its reason
Appended_SkipWithoutReason(job, doc) ==
    IF IsExampleJob(job)
    THEN Record("Example", job.display_name, Status(job),
                IF Status(job) = "SKIP" THEN job.skip_reason ELSE NoField, TRUE)
    ELSE IF job.is_skip
    THEN Record("Test", job.display_name, "SKIP", NoField, FALSE)
    ELSE IF job.returncode \in {0, 1, 2}
    THEN IF doc = "malformed" THEN Garbage
         ELSE Record("Test", job.display_name,
                     IF Status(job) = "VALGR" THEN "VALGR" ELSE doc, NoField, TRUE)
    ELSE Record("Test", job.display_name, "CRASH", NoField, FALSE)

\* what the loop appends to xml_results_file for the job
Appended(job, doc) ==
    IF IsExampleJob(job)
    THEN Record("Example", job.display_name, Status(job),
                IF Status(job) = "SKIP" THEN job.skip_reason ELSE NoField, TRUE)
    ELSE IF job.is_skip
    THEN Record("Test", job.display_name, "SKIP", job.skip_reason, FALSE)
    ELSE IF job.returncode \in {0, 1, 2}
    THEN IF doc = "malformed" THEN Garbage
         ELSE Record("Test", job.display_name,
                     IF Status(job) = "VALGR" THEN "VALGR" ELSE doc, NoField, TRUE)
    ELSE Record("Test", job.display_name, "CRASH", NoField, FALSE)

\* failed_jobs after the job: appended when not skipped, popped on PASS; a
\* suite is appended a second time and popped when its document parses and
\* says PASS or SKIP
FailedJobsAfter(list, job, doc) ==
    LET l1 == IF job.is_skip \/ job.returncode = 0 THEN list
              ELSE Append(list, job.display_name)
    IN  IF IsExampleJob(job) \/ job.is_skip THEN l1
        ELSE IF job.returncode \in {0, 1, 2} /\ doc \in {"PASS", "SKIP"} THEN l1
        ELSE Append(l1, job.display_name)

Count(status, job) == IF Status(job) = status THEN 1 ELSE 0

\* UpdateCounters with the final else branch counting nothing
UpdateCounters_CrashUncounted(job) ==
    /\ skipped_tests' = skipped_tests + Count("SKIP", job)
    /\ passed_tests' = passed_tests + Count("PASS", job)
    /\ failed_tests' = failed_tests + Count("FAIL", job)
    /\ valgrind_errors' = valgrind_errors + Count("VALGR", job)
    /\ crashed_tests' = crashed_tests

\* the counter updates of one iteration (lines 1969-1995)
UpdateCounters(job) ==
    /\ skipped_tests' = skipped_tests + Count("SKIP", job)
    /\ passed_tests' = passed_tests + Count("PASS", job)
    /\ failed_tests' = failed_tests + Count("FAIL", job)
    /\ valgrind_errors' = valgrind_errors + Count("VALGR", job)
    /\ crashed_tests' = crashed_tests + Count("CRASH", job)

\* ReturnValue with the skipped tests left out of the comparison
ReturnValue_SkipsForgotten(passed, skipped, total) ==
    IF passed = total THEN 0 ELSE 1

\* value run_tests() returns after the summary
ReturnValue(passed, skipped, total) ==
    IF passed + skipped = total THEN 0 ELSE 1

----------------------------------------------------------------------------
(* Main thread: run_tests() *)

\* exit status of "./ns3" when the build fails
BuildFailureCodes == {1, 2}

\* BuildFails going on to run the tests
BuildFails_RunsAnyway ==
    /\ pc = "build"
    /\ \E rc \in BuildFailureCodes : retval' = rc
    /\ pc' = "rerun"
    /\ UNCHANGED <<config, k, files, queues, workers, thread_exit, dispatch, i,
                   counters>>

\* the build returns non-zero: run_tests() returns it
BuildFails ==
    /\ pc = "build"
    /\ \E rc \in BuildFailureCodes : retval' = rc
    /\ pc' = "exit"
    /\ UNCHANGED <<config, k, files, queues, workers, thread_exit, dispatch, i,
                   counters>>

\* the build succeeds; discovery; the run's temp directory is made
BuildSucceeds ==
    /\ pc = "build"
    /\ pc' = "rerun"
    /\ testpy_output_dir' = TRUE
    /\ UNCHANGED <<config, k, retval, previously_run_tests_to_skip, tmp_files,
                   xml_results_file, queues, workers, thread_exit, dispatch, i,
                   counters>>

\* LoadPrevious going on with empty skip lists where the loader calls exit(-1)
LoadPrevious_ExitIgnored ==
    /\ pc = "rerun"
    /\ pc' = "create"
    /\ IF ~args.rerun_failed
       THEN UNCHANGED previously_run_tests_to_skip
       ELSE LET loaded == load_previously_successful_tests(ResultsGlob) IN
            previously_run_tests_to_skip' =
                [ test |-> loaded.test, example |-> loaded.example ]
    /\ UNCHANGED <<config, k, retval, testpy_output_dir, tmp_files,
                   xml_results_file, queues, workers, thread_exit, dispatch, i,
                   counters>>

\* LoadPrevious with the report it read removed from TMP_OUTPUT_DIR
LoadPrevious_ReportConsumed ==
    /\ pc = "rerun"
    /\ IF ~args.rerun_failed
       THEN pc' = "create"
            /\ UNCHANGED <<retval, previously_run_tests_to_skip, previous_results>>
       ELSE LET loaded == load_previously_successful_tests(ResultsGlob) IN
            IF loaded.exited
            THEN pc' = "exit" /\ retval' = -1
                 /\ UNCHANGED <<previously_run_tests_to_skip, previous_results>>
            ELSE pc' = "create"
                 /\ previously_run_tests_to_skip' =
                        [ test |-> loaded.test, example |-> loaded.example ]
                 /\ previous_results' =
                        previous_results \ {LatestResultFile(ResultsGlob)}
                 /\ UNCHANGED retval
    /\ UNCHANGED <<args, ENABLE_PYTHON_BINDINGS, host_processors, suite_list,
                   example_tests, python_tests, k, testpy_output_dir, tmp_files,
                   xml_results_file, queues, workers, thread_exit, dispatch, i,
                   counters>>

\* lines 1469-1471
LoadPrevious ==
    /\ pc = "rerun"
    /\ IF ~args.rerun_failed
       THEN pc' = "create" /\ UNCHANGED <<retval, previously_run_tests_to_skip>>
       ELSE LET loaded == load_previously_successful_tests(ResultsGlob) IN
            IF loaded.exited
            THEN pc' = "exit" /\ retval' = -1
                 /\ UNCHANGED previously_run_tests_to_skip
            ELSE pc' = "create"
                 /\ previously_run_tests_to_skip' =
                        [ test |-> loaded.test, example |-> loaded.example ]
                 /\ UNCHANGED retval
    /\ UNCHANGED <<config, k, testpy_output_dir, tmp_files, xml_results_file,
                   queues, workers, thread_exit, dispatch, i, counters>>

\* lines 1478-1481: the report is created with its start marker
CreateReport ==
    /\ pc = "create"
    /\ xml_results_file' = <<StartMarker>>
    /\ pc' = "start"
    /\ UNCHANGED <<config, k, retval, previously_run_tests_to_skip,
                   testpy_output_dir, tmp_files, queues, workers, thread_exit,
                   dispatch, i, counters>>

\* lines 1595-1626: one worker_thread per processor is started
StartThreads ==
    /\ pc = "start"
    /\ LET processors == Processors(host_processors, args.process_limit) IN
       /\ threads' = [w \in 1..processors |-> "get"]
       /\ thread_job' = [w \in 1..processors |-> Job]
    /\ pc' = "suites"
    /\ k' = 1
    /\ UNCHANGED <<config, retval, files, queues, launched, interrupted, in_flight,
                   thread_exit, dispatch, i, counters>>

\* input_queue.put(job); jobs = jobs + 1; total_tests = total_tests + 1
Put(job) ==
    /\ input_queue' = Append(input_queue, job)
    /\ jobs' = jobs + 1
    /\ total_tests' = total_tests + 1
    /\ dispatched' = Append(dispatched, job)
    /\ enqueued' = Append(enqueued, job)

\* lines 1645-1685: one iteration of the suite loop, or its end
DispatchSuite ==
    /\ pc = "suites"
    /\ IF k <= Len(suite_list) /\ args.pyexample = ""
       THEN /\ Put(SuiteJob(suite_list[k], previously_run_tests_to_skip))
            /\ k' = k + 1
            /\ pc' = pc
       ELSE /\ pc' = "examples"
            /\ k' = 1
            /\ UNCHANGED <<input_queue, enqueued, dispatch>>
    /\ UNCHANGED <<config, retval, files, output_queue, workers, thread_exit, i,
                   counters>>

\* lines 1759-1811: one iteration of the native example loop, or its end
DispatchExample ==
    /\ pc = "examples"
    /\ IF k <= Len(example_tests) /\ args.pyexample = ""
       THEN /\ IF example_tests[k].do_run
               THEN Put(ExampleJob(example_tests[k], previously_run_tests_to_skip))
               ELSE UNCHANGED <<input_queue, enqueued, dispatch>>
            /\ k' = k + 1
            /\ pc' = pc
       ELSE /\ pc' = "pyexamples"
            /\ k' = 1
            /\ UNCHANGED <<input_queue, enqueued, dispatch>>
    /\ UNCHANGED <<config, retval, files, output_queue, workers, thread_exit, i,
                   counters>>

\* lines 1833-1930: one iteration of the scripted example loop, or its end;
\* with --pyexample, the one job of the named script if it is runnable
DispatchPyExample ==
    /\ pc = "pyexamples"
    /\ IF args.pyexample # ""
       THEN /\ IF args.pyexample \in ns3_runnable_scripts
               THEN Put(ExplicitPyExampleJob(args.pyexample))
               ELSE UNCHANGED <<input_queue, enqueued, dispatch>>
            /\ pc' = "sentinels"
            /\ k' = 1
       ELSE IF k <= Len(python_tests)
       THEN /\ IF python_tests[k].do_run
               THEN Put(PyExampleJob(python_tests[k]))
               ELSE UNCHANGED <<input_queue, enqueued, dispatch>>
            /\ k' = k + 1
            /\ pc' = pc
       ELSE /\ pc' = "sentinels"
            /\ k' = 1
            /\ UNCHANGED <<input_queue, enqueued, dispatch>>
    /\ UNCHANGED <<config, retval, files, output_queue, workers, thread_exit, i,
                   counters>>

\* PutSentinel stopping one sentinel short
PutSentinel_OneShort ==
    /\ pc = "sentinels"
    /\ IF k < Len(threads)
       THEN /\ input_queue' = Append(input_queue, Sentinel)
            /\ enqueued' = Append(enqueued, Sentinel)
            /\ k' = k + 1
            /\ pc' = pc
       ELSE /\ pc' = "collect"
            /\ k' = k
            /\ UNCHANGED <<input_queue, enqueued>>
    /\ UNCHANGED <<config, retval, files, output_queue, workers, thread_exit,
                   dispatch, i, counters>>

\* lines 1936-1939: one is_break job per worker
PutSentinel ==
    /\ pc = "sentinels"
    /\ IF k <= Len(threads)
       THEN /\ input_queue' = Append(input_queue, Sentinel)
            /\ enqueued' = Append(enqueued, Sentinel)
            /\ k' = k + 1
            /\ pc' = pc
       ELSE /\ pc' = "collect"
            /\ k' = k
            /\ UNCHANGED <<input_queue, enqueued>>
    /\ UNCHANGED <<config, retval, files, output_queue, workers, thread_exit,
                   dispatch, i, counters>>

\* CollectBreak recording the job as skipped instead of ignoring it
CollectBreak_Recorded ==
    /\ pc = "collect"
    /\ i < jobs
    /\ output_queue # <<>>
    /\ Head(output_queue).is_break
    /\ output_queue' = Tail(output_queue)
    /\ i' = i + 1
    /\ skipped_tests' = skipped_tests + 1
    /\ xml_results_file' = Append(xml_results_file,
           Record("Test", Head(output_queue).display_name, "SKIP", "interrupted", FALSE))
    /\ UNCHANGED <<config, pc, k, retval, previously_run_tests_to_skip,
                   testpy_output_dir, tmp_files, input_queue, enqueued, workers,
                   thread_exit, dispatch, passed_tests, failed_tests,
                   crashed_tests, valgrind_errors, failed_jobs>>

\* lines 1959-1962: a job a worker gave back with is_break set is ignored
CollectBreak ==
    /\ pc = "collect"
    /\ i < jobs
    /\ output_queue # <<>>
    /\ Head(output_queue).is_break
    /\ output_queue' = Tail(output_queue)
    /\ i' = i + 1
    /\ UNCHANGED <<config, pc, k, retval, files, input_queue, enqueued, workers,
                   thread_exit, dispatch, counters>>

\* lines 1964-2117: a result is counted and its record appended
Collect ==
    /\ pc = "collect"
    /\ i < jobs
    /\ output_queue # <<>>
    /\ LET job == Head(output_queue)
           doc == tmp_files[job.display_name]
       IN  /\ ~job.is_break
           /\ ~(ReadsTmpFile(job) /\ doc = "absent")
           /\ UpdateCounters(job)
           /\ failed_jobs' = FailedJobsAfter(failed_jobs, job, doc)
           /\ xml_results_file' = Append(xml_results_file, Appended(job, doc))
    /\ output_queue' = Tail(output_queue)
    /\ i' = i + 1
    /\ UNCHANGED <<config, pc, k, retval, previously_run_tests_to_skip,
                   testpy_output_dir, tmp_files, input_queue, enqueued, workers,
                   thread_exit, dispatch>>

\* lines 2093-2096: open(job.tmp_file_name) raises FileNotFoundError after the
\* counters were updated; the exception leaves run_tests() and the
\* interpreter exits with status 1 once the workers have ended
CollectRaises ==
    /\ pc = "collect"
    /\ i < jobs
    /\ output_queue # <<>>
    /\ LET job == Head(output_queue)
           doc == tmp_files[job.display_name]
       IN  /\ ~job.is_break
           /\ ReadsTmpFile(job) /\ doc = "absent"
           /\ UpdateCounters(job)
           /\ failed_jobs' = Append(Append(failed_jobs, job.display_name),
                                    job.display_name)
    /\ output_queue' = Tail(output_queue)
    /\ i' = i + 1
    /\ pc' = "raised"
    /\ retval' = 1
    /\ UNCHANGED <<config, k, files, input_queue, enqueued, workers, thread_exit, dispatch>>

\* JoinThreads without waiting for the threads
JoinThreads_NoWait ==
    /\ pc = "collect"
    /\ i = jobs
    /\ pc' = "close"
    /\ UNCHANGED <<config, k, retval, files, queues, workers, thread_exit,
                   dispatch, i, counters>>

\* lines 2124-2125: every thread has ended
JoinThreads ==
    /\ pc = "collect"
    /\ i = jobs
    /\ \A w \in DOMAIN threads : threads[w] \in {"returned", "died"}
    /\ pc' = "close"
    /\ UNCHANGED <<config, k, retval, files, queues, workers, thread_exit,
                   dispatch, i, counters>>

\* lines 2133-2134: the end marker
WriteEndMarker ==
    /\ pc = "close"
    /\ xml_results_file' = Append(xml_results_file, EndMarker)
    /\ pc' = "summary"
    /\ UNCHANGED <<config, k, retval, previously_run_tests_to_skip,
                   testpy_output_dir, tmp_files, queues, workers, thread_exit,
                   dispatch, i, counters>>

\* Return removing the temp directory whatever args.retain says
Return_RetainIgnored ==
    /\ pc = "summary"
    /\ testpy_output_dir' = FALSE
    /\ tmp_files' = [n \in Names |-> "absent"]
    /\ retval' = ReturnValue(passed_tests, skipped_tests, total_tests)
    /\ pc' = "done"
    /\ UNCHANGED <<config, k, previously_run_tests_to_skip,
                   xml_results_file, queues, workers, thread_exit, dispatch, i,
                   counters>>

\* lines 2139-2237: the summary; unless args.retain, shutil.rmtree removes
\* testpy_output_dir with the result documents in it; the return value
Return ==
    /\ pc = "summary"
    /\ testpy_output_dir' = (testpy_output_dir /\ args.retain)
    /\ tmp_files' = IF args.retain THEN tmp_files ELSE [n \in Names |-> "absent"]
    /\ retval' = ReturnValue(passed_tests, skipped_tests, total_tests)
    /\ pc' = "done"
    /\ UNCHANGED <<config, k, previously_run_tests_to_skip,
                   xml_results_file, queues, workers, thread_exit, dispatch, i,
                   counters>>

----------------------------------------------------------------------------
(* worker_thread.run() *)

\* WorkerBranch without the is_skip test
WorkerBranch_SkipUnchecked(job) ==
    IF job.is_break THEN "return"
    ELSE IF thread_exit THEN "break"
    ELSE "launch"

\* WorkerBranch without the test of thread_exit
WorkerBranch_ExitUnchecked(job) ==
    IF job.is_break THEN "return"
    ELSE IF job.is_skip THEN "skip"
    ELSE "launch"

\* what run() does with the job it got (lines 1094-1119)
WorkerBranch(job) ==
    IF job.is_break THEN "return"
    ELSE IF thread_exit THEN "break"
    ELSE IF job.is_skip THEN "skip"
    ELSE "launch"

\* lines 1089-1121: get a job, leave on a break job, give the job back with
\* is_break set once thread_exit is set, give a skipped job back as it is,
\* else launch it (run_job_synchronously up to Popen)
WorkerGet(w) ==
    /\ w \in DOMAIN threads
    /\ threads[w] = "get"
    /\ input_queue # <<>>
    /\ LET job == Head(input_queue)
           branch == WorkerBranch(job)
       IN
       /\ input_queue' = Tail(input_queue)
       /\ threads' = [threads EXCEPT ![w] =
              CASE branch = "return" -> "returned"
                [] branch = "launch" -> "run"
                [] OTHER -> "get"]
       /\ output_queue' =
              CASE branch = "break" -> Append(output_queue, [job EXCEPT !.is_break = TRUE])
                [] branch = "skip" -> Append(output_queue, job)
                [] OTHER -> output_queue
       /\ interrupted' =
              IF branch = "break" THEN interrupted \cup {job.display_name}
              ELSE interrupted
       /\ thread_job' = IF branch = "launch" THEN [thread_job EXCEPT ![w] = job]
                        ELSE thread_job
       /\ launched' = IF branch = "launch"
                      THEN [launched EXCEPT ![job.display_name] = @ + 1]
                      ELSE launched
    /\ UNCHANGED <<enqueued, in_flight, config, pc, k, retval, files, thread_exit,
                   dispatch, i, counters>>

\* run_job_synchronously raises before a subprocess exists (Popen fails, or
\* PYTHON is empty for a scripted example): run() has no handler, the thread
\* ends and the job it holds goes nowhere
WorkerLaunchRaises(w) ==
    /\ w \in DOMAIN threads
    /\ threads[w] = "get"
    /\ input_queue # <<>>
    /\ WorkerBranch(Head(input_queue)) = "launch"
    /\ input_queue' = Tail(input_queue)
    /\ threads' = [threads EXCEPT ![w] = "died"]
    /\ UNCHANGED <<enqueued, config, pc, k, retval, files, output_queue, thread_job,
                   launched, interrupted, in_flight, thread_exit, dispatch, i, counters>>

\* WorkerFinish writing the record of an example into the report itself
WorkerFinish_WritesReport(w) ==
    /\ w \in DOMAIN threads
    /\ threads[w] = "run"
    /\ LET job == thread_job[w] IN
       IF IsExampleJob(job)
       THEN \E rc \in ExitCodes :
              /\ output_queue' = Append(output_queue,
                     [job EXCEPT !.returncode = rc, !.elapsed_time = TRUE])
              /\ xml_results_file' = Append(xml_results_file,
                     Appended([job EXCEPT !.returncode = rc], "absent"))
              /\ UNCHANGED tmp_files
       ELSE \E o \in SuiteOutcomes :
              /\ output_queue' = Append(output_queue,
                     [job EXCEPT !.returncode = o[1], !.elapsed_time = TRUE])
              /\ tmp_files' = [tmp_files EXCEPT ![job.display_name] = o[2]]
              /\ UNCHANGED xml_results_file
    /\ threads' = [threads EXCEPT ![w] = "get"]
    /\ thread_job' = [thread_job EXCEPT ![w] = Job]
    /\ UNCHANGED <<config, pc, k, retval, previously_run_tests_to_skip,
                   testpy_output_dir, input_queue, enqueued, launched,
                   interrupted, in_flight, thread_exit, dispatch, i, counters>>

\* WorkerFinish putting a job that ended with a non-zero exit code back on
\* input_queue
WorkerFinish_Requeues(w) ==
    /\ w \in DOMAIN threads
    /\ threads[w] = "run"
    /\ LET job == thread_job[w] IN
       \E o \in IF IsExampleJob(job) THEN { <<rc, "absent">> : rc \in ExitCodes }
                ELSE SuiteOutcomes :
          /\ IF o[1] = 0
             THEN /\ output_queue' = Append(output_queue,
                         [job EXCEPT !.returncode = o[1], !.elapsed_time = TRUE])
                  /\ UNCHANGED <<input_queue, enqueued>>
             ELSE /\ input_queue' = Append(input_queue, job)
                  /\ enqueued' = Append(enqueued, job)
                  /\ UNCHANGED output_queue
          /\ tmp_files' = IF IsExampleJob(job) THEN tmp_files
                          ELSE [tmp_files EXCEPT ![job.display_name] = o[2]]
    /\ threads' = [threads EXCEPT ![w] = "get"]
    /\ thread_job' = [thread_job EXCEPT ![w] = Job]
    /\ UNCHANGED <<config, pc, k, retval, previously_run_tests_to_skip,
                   testpy_output_dir, xml_results_file, launched,
                   interrupted, in_flight, thread_exit, dispatch, i, counters>>

\* lines 1129-1171: the subprocess ends; the job goes to output_queue with
\* its return code (a suite has left its result document, or not)
WorkerFinish(w) ==
    /\ w \in DOMAIN threads
    /\ threads[w] = "run"
    /\ LET job == thread_job[w] IN
       IF IsExampleJob(job)
       THEN \E rc \in ExitCodes :
              /\ output_queue' = Append(output_queue,
                     [job EXCEPT !.returncode = rc, !.elapsed_time = TRUE])
              /\ UNCHANGED tmp_files
       ELSE \E o \in SuiteOutcomes :
              /\ output_queue' = Append(output_queue,
                     [job EXCEPT !.returncode = o[1], !.elapsed_time = TRUE])
              /\ tmp_files' = [tmp_files EXCEPT ![job.display_name] = o[2]]
    /\ threads' = [threads EXCEPT ![w] = "get"]
    /\ thread_job' = [thread_job EXCEPT ![w] = Job]
    /\ UNCHANGED <<config, pc, k, retval, previously_run_tests_to_skip,
                   testpy_output_dir, xml_results_file, input_queue, enqueued, launched,
                   interrupted, in_flight, thread_exit, dispatch, i, counters>>

\* the jobs whose subprocess is running (the threads inside
\* run_job_synchronously)
Running ==
    { thread_job[w].display_name : w \in { v \in DOMAIN threads : threads[v] = "run" } }

\* Interrupt flipping the flag instead of setting it
Interrupt_Toggles ==
    /\ pc \notin {"done", "exit"}
    /\ thread_exit' = ~thread_exit
    /\ in_flight' = IF thread_exit THEN in_flight ELSE Running
    /\ UNCHANGED <<config, pc, k, retval, files, queues, threads, thread_job,
                   launched, interrupted, dispatch, i, counters>>

\* sigint_hook: SIGINT arrives while the process lives
Interrupt ==
    /\ pc \notin {"done", "exit"}
    /\ thread_exit' = TRUE
    /\ in_flight' = IF thread_exit THEN in_flight ELSE Running
    /\ UNCHANGED <<config, pc, k, retval, files, queues, threads, thread_job,
                   launched, interrupted, dispatch, i, counters>>

----------------------------------------------------------------------------
(* Initial states *)

\* the state of the program's variables when run_tests() is entered
InitRun ==
    /\ pc = "build"
    /\ k = 1
    /\ retval = 0
    /\ previously_run_tests_to_skip = [test |-> <<>>, example |-> <<>>]
    /\ testpy_output_dir = FALSE
    /\ tmp_files = [n \in Names |-> "absent"]
    /\ xml_results_file = <<>>
    /\ input_queue = <<>>
    /\ output_queue = <<>>
    /\ threads = <<>>
    /\ thread_job = <<>>
    /\ thread_exit = FALSE
    /\ jobs = 0
    /\ total_tests = 0
    /\ i = 0
    /\ passed_tests = 0
    /\ failed_tests = 0
    /\ crashed_tests = 0
    /\ valgrind_errors = 0
    /\ skipped_tests = 0
    /\ failed_jobs = <<>>
    /\ launched = [n \in Names |-> 0]
    /\ dispatched = <<>>
    /\ enqueued = <<>>
    /\ interrupted = {}
    /\ in_flight = {}

\* sizes of the three lists of a catalog of MaxUnits units
NumSuites == (MaxUnits + 2) \div 3
NumExamples == (MaxUnits + 1) \div 3
NumPyExamples == MaxUnits \div 3

Args(rerun_failed, valgrind, fullness, process_limit, retain, pyexample) ==
    [ rerun_failed |-> rerun_failed, valgrind |-> valgrind, fullness |-> fullness,
      process_limit |-> process_limit, retain |-> retain, pyexample |-> pyexample ]

\* a finished report of an earlier run
PriorReport(basename, records) ==
    [ basename |-> basename, contents |-> <<StartMarker>> \o records \o <<EndMarker>> ]

\* records of earlier runs, by display name
Passed(name) ==
    IF name \in Range(SuitePool) THEN Record("Test", name, "PASS", NoField, TRUE)
    ELSE Record("Example", name, "PASS", NoField, TRUE)
Failed(name) ==
    IF name \in Range(SuitePool) THEN Record("Test", name, "FAIL", NoField, TRUE)
    ELSE Record("Example", name, "FAIL", NoField, TRUE)
Skipped(name) ==
    IF name \in Range(SuitePool)
    THEN Record("Test", name, "SKIP", ReasonRerun, FALSE)
    ELSE Record("Example", name, "SKIP", ReasonRerun, TRUE)
Crashed(name) ==
    IF name \in Range(SuitePool) THEN Record("Test", name, "CRASH", NoField, FALSE)
    ELSE Record("Example", name, "CRASH", NoField, TRUE)

\* what TMP_OUTPUT_DIR may hold when a rerun is asked for: nothing; a report
\* whose writer died before the end marker; an old report and a newer one; a
\* finished report and a newer one whose writer died before the end marker
PreviousResultSets ==
    { {},
      { [ basename |-> 1, contents |-> <<StartMarker, Passed(SuitePool[1])>> ] },
      { PriorReport(1, <<Failed(SuitePool[1]), Failed(ExamplePool[1]),
                         Failed(PyExamplePool[1])>>),
        PriorReport(2, <<Passed(PyExamplePool[1]), Skipped(ExamplePool[1]),
                         Crashed(SuitePool[1])>>) },
      { PriorReport(1, <<Passed(SuitePool[1]), Failed(ExamplePool[1])>>) },
      { PriorReport(1, <<Passed(SuitePool[1]), Passed(ExamplePool[1])>>),
        [ basename |-> 2,
          contents |-> <<StartMarker, Failed(SuitePool[1]), Passed(ExamplePool[1])>> ] } }

InitConfig ==
    /\ args \in { Args(rerun_failed, valgrind, fullness, process_limit, retain, "") :
                    rerun_failed \in BOOLEAN, valgrind \in BOOLEAN,
                    fullness \in {"QUICK", "EXTENSIVE"}, process_limit \in {0, 1},
                    retain \in BOOLEAN }
    /\ ENABLE_PYTHON_BINDINGS \in BOOLEAN
    /\ host_processors = MaxProcessors
    /\ suite_list = SubSeq(SuitePool, 1, NumSuites)
    /\ example_tests = [ n \in 1..NumExamples |->
            [ name |-> ExamplePool[n], do_run |-> TRUE, do_valgrind_run |-> TRUE,
              fullness |-> "EXTENSIVE" ] ]
    /\ python_tests = [ n \in 1..NumPyExamples |->
            [ name |-> PyExamplePool[n], do_run |-> TRUE, fullness |-> "QUICK" ] ]
    /\ previous_results \in PreviousResultSets
    /\ ~args.rerun_failed => previous_results = {}

Init == InitConfig /\ InitRun

MainStep ==
    \/ BuildFails
    \/ BuildSucceeds
    \/ LoadPrevious
    \/ CreateReport
    \/ StartThreads
    \/ DispatchSuite
    \/ DispatchExample
    \/ DispatchPyExample
    \/ PutSentinel
    \/ CollectBreak
    \/ Collect
    \/ CollectRaises
    \/ JoinThreads
    \/ WriteEndMarker
    \/ Return

Next ==
    \/ MainStep
    \/ \E w \in DOMAIN threads : WorkerGet(w)
    \/ \E w \in DOMAIN threads : WorkerLaunchRaises(w)
    \/ \E w \in DOMAIN threads : WorkerFinish(w)
    \/ Interrupt

Spec == Init /\ [][Next]_vars

----------------------------------------------------------------------------
(* The rerun filter on its own: the main thread from the build to the end of
   the dispatch loops, over every prior report of up to MaxPriorRecords
   records about a catalog of two suites, two native examples and one
   scripted example *)

RerunSuites == SubSeq(SuitePool, 1, 2)
RerunExamples ==
    << [ name |-> ExamplePool[1], do_run |-> TRUE, do_valgrind_run |-> TRUE,
         fullness |-> "QUICK" ],
       [ name |-> ExamplePool[2], do_run |-> TRUE, do_valgrind_run |-> FALSE,
         fullness |-> "EXTENSIVE" ] >>
RerunPyExamples ==
    << [ name |-> PyExamplePool[1], do_run |-> TRUE, fullness |-> "QUICK" ] >>

RerunNames ==
    Range(RerunSuites) \cup { RerunExamples[n].name : n \in 1..Len(RerunExamples) }
        \cup { RerunPyExamples[n].name : n \in 1..Len(RerunPyExamples) }

PriorRecords == { Passed(n) : n \in RerunNames } \cup { Failed(n) : n \in RerunNames }
                    \cup { Skipped(n) : n \in RerunNames }

\* the sequences of at most n records, no display name twice
RECURSIVE PriorRecordSeqs(_)
PriorRecordSeqs(n) ==
    IF n = 0 THEN { <<>> }
    ELSE LET shorter == PriorRecordSeqs(n - 1) IN
         shorter \cup
         { Append(q, r) : <<q, r>> \in
             { x \in shorter \X PriorRecords :
                 /\ Len(x[1]) = n - 1
                 /\ \A m \in 1..Len(x[1]) : x[1][m].Name # x[2].Name } }

\* an older report in which every unit passed
OldReport == PriorReport(1, [ n \in 1..Len(RerunSuites) |-> Passed(RerunSuites[n]) ]
                            \o [ n \in 1..Len(RerunExamples) |-> Passed(RerunExamples[n].name) ])

RerunInit ==
    /\ args \in { Args(TRUE, valgrind, fullness, 1, FALSE, "") :
                    valgrind \in BOOLEAN, fullness \in Fullness }
    /\ ENABLE_PYTHON_BINDINGS = TRUE
    /\ host_processors = MaxProcessors
    /\ suite_list = RerunSuites
    /\ example_tests = RerunExamples
    /\ python_tests = RerunPyExamples
    /\ \E records \in PriorRecordSeqs(MaxPriorRecords) :
          previous_results = { OldReport, PriorReport(2, records) }
    /\ InitRun

RerunNext ==
    \/ BuildSucceeds
    \/ LoadPrevious
    \/ CreateReport
    \/ StartThreads
    \/ DispatchSuite
    \/ DispatchExample
    \/ DispatchPyExample

RerunSpec == RerunInit /\ [][RerunNext]_vars

----------------------------------------------------------------------------
(* The dispatcher on its own: the main thread from the build to the last
   sentinel, over catalogs whose example entries carry every fullness tier
   and may be marked not to run *)

DispatchInit ==
    /\ args \in { Args(FALSE, valgrind, fullness, process_limit, FALSE, "") :
                    valgrind \in BOOLEAN, fullness \in Fullness,
                    process_limit \in {0, 1} }
    /\ ENABLE_PYTHON_BINDINGS \in BOOLEAN
    /\ host_processors = MaxProcessors
    /\ suite_list = SubSeq(SuitePool, 1, 1)
    /\ \E do_run \in BOOLEAN, f1 \in Fullness, f2 \in Fullness :
          example_tests =
              << [ name |-> ExamplePool[1], do_run |-> do_run,
                   do_valgrind_run |-> TRUE, fullness |-> f1 ],
                 [ name |-> ExamplePool[2], do_run |-> TRUE,
                   do_valgrind_run |-> FALSE, fullness |-> f2 ] >>
    /\ \E do_run \in BOOLEAN, f3 \in Fullness :
          python_tests =
              << [ name |-> PyExamplePool[1], do_run |-> do_run, fullness |-> f3 ] >>
    /\ previous_results = {}
    /\ InitRun

DispatchNext ==
    \/ BuildSucceeds
    \/ LoadPrevious
    \/ CreateReport
    \/ StartThreads
    \/ DispatchSuite
    \/ DispatchExample
    \/ DispatchPyExample
    \/ PutSentinel

DispatchSpec == DispatchInit /\ [][DispatchNext]_vars

----------------------------------------------------------------------------
(* Vocabulary of the properties *)

\* the per-unit records of the report written so far
UnitRecords == SelectSeq(xml_results_file, LAMBDA x : x.tag \in {"Test", "Example"})

\* the items written between the markers, well-formed or not
UnitItems == SelectSeq(xml_results_file, LAMBDA x : x \notin {StartMarker, EndMarker})

RecordsOf(name) == SelectSeq(UnitRecords, LAMBDA x : x.Name = name)

DispatchedNames == { dispatched[n].display_name : n \in 1..Len(dispatched) }

CounterSum ==
    passed_tests + skipped_tests + failed_tests + crashed_tests + valgrind_errors

\* exit code -> outcome, as the design states it
Outcome(returncode) ==
    CASE returncode = 0 -> "PASS"
      [] returncode = 1 -> "FAIL"
      [] returncode = 2 -> "VALGR"
      [] OTHER -> "CRASH"

\* the most recent prior report records the display name as Pass or Skip
RecordedSuccessful(name) ==
    \E f \in previous_results :
        /\ \A g \in previous_results : g.basename <= f.basename
        /\ \E m \in 1..Len(f.contents) :
              /\ f.contents[m].Name = name
              /\ f.contents[m].Result \in {"PASS", "SKIP"}

NothingPrevious == [ test |-> <<>>, example |-> <<>> ]

\* the n-th job of the dispatch loops for the catalog, given the skip lists
CatalogJob(n, previously) ==
    IF n <= Len(suite_list) THEN SuiteJob(suite_list[n], previously)
    ELSE IF n <= Len(suite_list) + Len(example_tests)
    THEN ExampleJob(example_tests[n - Len(suite_list)], previously)
    ELSE PyExampleJob(python_tests[n - Len(suite_list) - Len(example_tests)])

SkippedNames(joblist) ==
    { joblist[n].display_name : n \in { m \in 1..Len(joblist) : joblist[m].is_skip } }

\* the tier order Quick < Extensive < TakesForever
Rank(tier) ==
    CASE tier = "QUICK" -> 1
      [] tier = "EXTENSIVE" -> 2
      [] tier = "TAKES_FOREVER" -> 3

\* the reasons the tier rule can give
AllTierReasons ==
    { ReasonQuick(f) : f \in Fullness } \cup { ReasonExtensive(f) : f \in Fullness }

\* the tier the catalog gives the example of that display name
EntryTier(name) ==
    IF \E n \in 1..Len(example_tests) : example_tests[n].name = name
    THEN example_tests[CHOOSE n \in 1..Len(example_tests) :
                           example_tests[n].name = name].fullness
    ELSE python_tests[CHOOSE n \in 1..Len(python_tests) :
                          python_tests[n].name = name].fullness

\* display names of the catalog entries that are to run, in catalog order:
\* suites, then native examples, then scripted examples
EligibleNames ==
    LET examples == SelectSeq(example_tests, LAMBDA e : e.do_run)
        pyexamples == SelectSeq(python_tests, LAMBDA e : e.do_run)
    IN  suite_list \o [ n \in 1..Len(examples) |-> examples[n].name ]
                   \o [ n \in 1..Len(pyexamples) |-> pyexamples[n].name ]

\* a step of a worker thread: only workers take from input_queue and put on
\* output_queue, and only they move a started thread
IsWorkerStep ==
    \/ input_queue # <<>> /\ input_queue' = Tail(input_queue)
    \/ Len(output_queue') > Len(output_queue)
    \/ threads # <<>> /\ threads' # threads

\* the job as the dispatcher made it, whatever a worker has set in it since
AsDispatched(job) ==
    [job EXCEPT !.is_break = FALSE, !.returncode = 0, !.elapsed_time = FALSE]

\* number of per-unit records of the report with that result
Tally(result) == Len(SelectSeq(UnitRecords, LAMBDA x : x.Result = result))

----------------------------------------------------------------------------
(* Properties *)

\* C1: with no cancellation, when the run finishes the Run Report holds
\* exactly one per-unit record for each dispatched display name: N records,
\* none duplicated, none missing.
C1_ExactlyOneRecordPerJob ==
    (pc = "done" /\ ~thread_exit) =>
        /\ Len(UnitRecords) = Len(dispatched)
        /\ \A name \in DispatchedNames : Len(RecordsOf(name)) = 1

C4_RunsToTheEnd ==
    /\ pc \notin {"done", "exit"} =>
          ENABLED (MainStep \/ (\E w \in DOMAIN threads : WorkerGet(w))
                            \/ (\E w \in DOMAIN threads : WorkerFinish(w)))
    /\ pc = "done" =>
          /\ i = Len(dispatched)
          /\ \A w \in DOMAIN threads : threads[w] = "returned"
          /\ xml_results_file[Len(xml_results_file)] = EndMarker

\* C5: a job whose skip flag was set before dispatch is never launched.
C5_SkippedNeverLaunched ==
    \A n \in 1..Len(dispatched) :
        dispatched[n].is_skip => launched[dispatched[n].display_name] = 0

C5_Witness ==
    /\ pc = "done"
    /\ \E n \in 1..Len(dispatched) :
          /\ dispatched[n].is_skip
          /\ dispatched[n].skip_reason = ReasonRerun
          /\ Len(RecordsOf(dispatched[n].display_name)) = 1
    /\ \E n \in 1..Len(dispatched) : launched[dispatched[n].display_name] = 1

\* C6: each time the collection loop takes an executed (not skipped, not
\* interrupted) job, exactly one counter goes up by one, the one of the
\* outcome of the job's exit code: 0 Pass, 1 Fail, 2 LeakCheckError, any
\* other code Crash.
C6_OneCounterPerExitCode ==
    [][ ( /\ pc = "collect"
          /\ i' = i + 1
          /\ ~Head(output_queue).is_break
          /\ ~Head(output_queue).is_skip )
        => LET o == Outcome(Head(output_queue).returncode) IN
           /\ passed_tests' = passed_tests + (IF o = "PASS" THEN 1 ELSE 0)
           /\ failed_tests' = failed_tests + (IF o = "FAIL" THEN 1 ELSE 0)
           /\ valgrind_errors' = valgrind_errors + (IF o = "VALGR" THEN 1 ELSE 0)
           /\ crashed_tests' = crashed_tests + (IF o = "CRASH" THEN 1 ELSE 0)
           /\ skipped_tests' = skipped_tests ]_vars

C6_Witness ==
    /\ valgrind_errors = 1
    /\ crashed_tests = 1
    /\ failed_tests = 1
    /\ passed_tests = 0

C8_FailedOrNewStayEligible ==
    \A n \in 1..Len(dispatched) :
        ~RecordedSuccessful(dispatched[n].display_name) =>
            /\ dispatched[n] = CatalogJob(n, NothingPrevious)
            /\ dispatched[n].skip_reason # ReasonRerun

\* prior {A: Pass, B: Fail, C: Skip}, catalog with D new: A and C are
\* skipped by the filter, B and D are dispatched to run
C8_Witness ==
    /\ pc = "sentinels"
    /\ ~args.valgrind /\ args.fullness = "EXTENSIVE"
    /\ \E f \in previous_results :
          f.contents = <<StartMarker, Passed(SuitePool[1]), Failed(SuitePool[2]),
                         Skipped(ExamplePool[1]), EndMarker>>
    /\ dispatched[1].skip_reason = ReasonRerun
    /\ ~dispatched[2].is_skip
    /\ dispatched[3].skip_reason = ReasonRerun
    /\ ~dispatched[4].is_skip /\ dispatched[4].display_name = ExamplePool[2]

\* C9 as stated, the wording of the reason left aside: in rerun-failed mode
\* every catalog entry, suite, native example or scripted example, that the
\* most recent prior report records as Pass or Skip is dispatched as a Skip
\* and is not executed.
C9_PreviouslySuccessfulSkipped ==
    args.rerun_failed =>
        \A n \in 1..Len(dispatched) :
            RecordedSuccessful(dispatched[n].display_name) =>
                /\ dispatched[n].is_skip
                /\ launched[dispatched[n].display_name] = 0

C11_NoPriorReportFailsEarly ==
    (args.rerun_failed /\ previous_results = {}) =>
        /\ pc \in {"build", "rerun", "exit"}
        /\ xml_results_file = <<>>
        /\ threads = <<>>
        /\ input_queue = <<>> /\ dispatched = <<>> /\ jobs = 0
        /\ (pc = "exit" /\ testpy_output_dir) => retval = -1

C11_Witness ==
    /\ args.rerun_failed /\ previous_results = {}
    /\ pc = "exit" /\ retval = -1
    /\ xml_results_file = <<>>

\* C12: the rerun filter reads the report with the greatest file name of all
\* the reports in TMP_OUTPUT_DIR, and that report is one an earlier run left,
\* never the report of the run in progress, which does not exist yet when the
\* filter reads; the skip lists are the Pass and Skip names of that report.
C12_ReadsLatestEarlierReport ==
    /\ (pc = "rerun" /\ args.rerun_failed /\ ResultsGlob # {}) =>
          LET f == LatestResultFile(ResultsGlob) IN
          /\ f \in previous_results
          /\ \A g \in ResultsGlob : g.basename <= f.basename
          /\ xml_results_file = <<>>
    /\ (pc \notin {"build", "rerun", "exit"} /\ args.rerun_failed) =>
          \A name \in Names :
              name \in Range(previously_run_tests_to_skip.test)
                           \cup Range(previously_run_tests_to_skip.example)
                  <=> RecordedSuccessful(name)

C12_Witness ==
    /\ pc = "suites"
    /\ Cardinality(previous_results) = 2
    /\ Cardinality(ResultsGlob) = 3
    /\ Len(previously_run_tests_to_skip.test) = 0
    /\ Len(previously_run_tests_to_skip.example) = 1

\* C13: with the tier order Quick < Extensive < TakesForever, an example entry
\* of tier E under requested tier T is skipped by the tier rule if and only
\* if E > T; a tier-skipped entry is a Skip whose reason names the requested
\* tier; suites are never tier-skipped.
C13_TierRule ==
    \A n \in 1..Len(dispatched) :
        LET job == dispatched[n] IN
        IF ~IsExampleJob(job) THEN job.skip_reason \notin AllTierReasons
        ELSE LET E == EntryTier(job.display_name)
                 T == args.fullness
             IN  /\ job.skip_reason \in AllTierReasons <=> Rank(E) > Rank(T)
                 /\ Rank(E) > Rank(T) =>
                       /\ job.is_skip
                       /\ T = "QUICK" =>
                             job.skip_reason \in
                                 { "skip EXTENSIVE examples when QUICK run selected",
                                   "skip TAKES_FOREVER examples when QUICK run selected" }
                       /\ T = "EXTENSIVE" =>
                             job.skip_reason =
                                 "skip TAKES_FOREVER examples when EXTENSIVE run selected"

C13_Witness ==
    /\ pc = "sentinels"
    /\ args.fullness = "EXTENSIVE"
    /\ \E n \in 1..Len(dispatched) :
          /\ IsExampleJob(dispatched[n])
          /\ EntryTier(dispatched[n].display_name) = "QUICK"
          /\ ~dispatched[n].is_skip
    /\ \E n \in 1..Len(dispatched) :
          /\ IsExampleJob(dispatched[n])
          /\ EntryTier(dispatched[n].display_name) = "EXTENSIVE"
          /\ ~dispatched[n].is_skip
    /\ \E n \in 1..Len(dispatched) :
          /\ IsExampleJob(dispatched[n])
          /\ EntryTier(dispatched[n].display_name) = "TAKES_FOREVER"
          /\ dispatched[n].is_skip
          /\ dispatched[n].skip_reason =
                 "skip TAKES_FOREVER examples when EXTENSIVE run selected"

\* C14: what the dispatcher has put on the job queue is, at every moment, one
\* job per eligible catalog entry in catalog order (suites, native examples,
\* scripted examples), followed, only once all of them are in, by sentinels;
\* when it is done there are exactly as many sentinels as workers, and no
\* real job comes after a sentinel.
C14_DispatchOrder ==
    LET n_real == Len(SelectSeq(enqueued, LAMBDA j : ~j.is_break)) IN
    /\ n_real <= Len(EligibleNames)
    /\ \A m \in 1..Len(enqueued) :
          IF m <= n_real
          THEN ~enqueued[m].is_break /\ enqueued[m].display_name = EligibleNames[m]
          ELSE enqueued[m] = Sentinel
    /\ Len(enqueued) > n_real => n_real = Len(EligibleNames)
    /\ Len(enqueued) - n_real <= Len(threads)
    /\ pc = "collect" => Len(enqueued) = Len(EligibleNames) + Len(threads)

C14_Witness ==
    /\ pc = "collect"
    /\ Len(threads) = 2
    /\ Len(enqueued) = 5
    /\ ~enqueued[3].is_break /\ enqueued[3].is_pyexample
    /\ enqueued[4].is_break /\ enqueued[5].is_break

\* C15, the outcome left aside: a worker that raises while it prepares or
\* launches a job keeps running, and the job is not lost -- no worker thread
\* is ever dead, and every real job taken off the job queue is held by a
\* worker that runs it, is on the results queue, or has been collected.
C15_WorkerFaultContained ==
    /\ \A w \in DOMAIN threads : threads[w] # "died"
    /\ Len(dispatched) - Len(SelectSeq(input_queue, LAMBDA j : ~j.is_break)) =
          Cardinality({ w \in DOMAIN threads : threads[w] = "run" })
              + Len(output_queue) + i

\* C16: when the collection loop takes a suite job that exited with code 0,
\* 1 or 2 and whose result document is missing or malformed, it counts the
\* job as a Crash, appends a Crash record for it and stays in the loop.
C16_BadDocumentIsCrash ==
    [][ ( /\ pc = "collect"
          /\ i' = i + 1
          /\ ~Head(output_queue).is_break
          /\ ReadsTmpFile(Head(output_queue))
          /\ tmp_files[Head(output_queue).display_name] \in {"absent", "malformed"} )
        => /\ pc' = "collect"
           /\ crashed_tests' = crashed_tests + 1
           /\ xml_results_file' =
                 Append(xml_results_file,
                        Record("Test", Head(output_queue).display_name, "CRASH",
                               NoField, FALSE)) ]_vars

\* C17: when the collection loop takes a suite job whose exit code is none of
\* 0, 1, 2, it appends exactly one record, with the job's display name and
\* the result CRASH, counts a crash, and does not read the job's temp result
\* file: it stays in the loop although the file does not exist.
C17_CrashRecordSynthesized ==
    [][ ( /\ pc = "collect"
          /\ i' = i + 1
          /\ ~Head(output_queue).is_break
          /\ ~Head(output_queue).is_skip
          /\ ~IsExampleJob(Head(output_queue))
          /\ Head(output_queue).returncode \notin {0, 1, 2} )
        => /\ pc' = "collect"
           /\ crashed_tests' = crashed_tests + 1
           /\ xml_results_file' =
                 Append(xml_results_file,
                        Record("Test", Head(output_queue).display_name, "CRASH",
                               NoField, FALSE)) ]_vars

C17_Witness ==
    /\ pc = "done"
    /\ crashed_tests = 1
    /\ tmp_files[SuitePool[1]] = "absent"
    /\ launched[SuitePool[1]] = 1
    /\ RecordsOf(SuitePool[1]) = << Record("Test", SuitePool[1], "CRASH", NoField, FALSE) >>

\* C18: a build that exits with a non-zero status ends the run at once with
\* that failure: run_tests() returns a build failure code, and a run that
\* ended before its report was created has started no worker, enqueued no
\* job and written no report, and does nothing more.
C18_BuildFailureIsFatal ==
    /\ [][ (pc = "build" /\ retval' # retval) =>
               (pc' = "exit" /\ retval' # 0 /\ retval' \in BuildFailureCodes) ]_vars
    /\ [][ pc # "exit" ]_vars
    /\ [](pc = "exit" =>
             /\ retval # 0
             /\ threads = <<>>
             /\ enqueued = <<>> /\ jobs = 0
             /\ xml_results_file = <<>>)

C18_Witness ==
    /\ pc = "exit"
    /\ retval = 2
    /\ ~testpy_output_dir
    /\ threads = <<>> /\ xml_results_file = <<>>

\* C19: only the main thread appends to the Run Report and updates the
\* counters.  A step of a worker leaves the report, the counters and the main
\* thread's variables alone; of the shared state it changes only the two
\* queues: it takes at most the job at the head of the job queue, and puts at
\* most one job on the results queue, the very job it took or holds.
C19_SingleWriter ==
    [][ IsWorkerStep =>
          /\ UNCHANGED <<xml_results_file, counters, pc, k, i, retval, dispatch,
                         enqueued, previously_run_tests_to_skip, testpy_output_dir>>
          /\ input_queue' = input_queue \/ input_queue' = Tail(input_queue)
          /\ \/ output_queue' = output_queue
             \/ /\ Len(output_queue') = Len(output_queue) + 1
                /\ SubSeq(output_queue', 1, Len(output_queue)) = output_queue
                /\ LET put == output_queue'[Len(output_queue')] IN
                   IF input_queue' = input_queue
                   THEN \E w \in DOMAIN threads :
                            /\ threads[w] = "run" /\ threads'[w] = "get"
                            /\ AsDispatched(put) = thread_job[w]
                   ELSE AsDispatched(put) = Head(input_queue) ]_vars

C19_Witness ==
    /\ pc = "collect"
    /\ Len(UnitRecords) = 1
    /\ Len(output_queue) = 1
    /\ \E w \in DOMAIN threads : threads[w] = "run"
    /\ passed_tests + failed_tests + crashed_tests = 1

\* C20: the Run Report begins with the start marker, written once and before
\* any record; the end marker is in it at most once, as its last item: when
\* it is there the collection loop has taken the result of every job, every
\* worker thread has ended, and nothing has been appended since.
C20_ReportBracketed ==
    /\ xml_results_file # <<>> => xml_results_file[1] = StartMarker
    /\ \A m \in 2..Len(xml_results_file) : xml_results_file[m] # StartMarker
    /\ (xml_results_file = <<>> \/ pc \in {"create", "build", "rerun"}) =>
          (i = 0 /\ CounterSum = 0)
    /\ \A m \in 1..Len(xml_results_file) :
          xml_results_file[m] = EndMarker =>
              /\ m = Len(xml_results_file)
              /\ i = jobs /\ jobs = Len(dispatched)
              /\ output_queue = <<>>
              /\ \A w \in DOMAIN threads : threads[w] \in {"returned", "died"}
    /\ pc \in {"summary", "done"} =>
          xml_results_file[Len(xml_results_file)] = EndMarker

C20_Witness ==
    /\ pc = "done"
    /\ Len(threads) = 2
    /\ Len(xml_results_file) = 5
    /\ xml_results_file[1] = StartMarker
    /\ xml_results_file[5] = EndMarker
    /\ Len(UnitRecords) = 3

\* C21: the records of the Run Report are in the order in which the jobs were
\* put on the results queue, one appended per collected job as it is
\* collected: each time the collection loop takes a job that was not
\* interrupted, which is the job at the head of the results queue, it appends
\* exactly one per-unit record, the record of that job.
C21_RecordPerCollectedJob ==
    [][ ( /\ pc = "collect"
          /\ i' = i + 1
          /\ ~Head(output_queue).is_break )
        => /\ Len(xml_results_file') = Len(xml_results_file) + 1
           /\ SubSeq(xml_results_file', 1, Len(xml_results_file)) = xml_results_file
           /\ LET r == xml_results_file'[Len(xml_results_file')] IN
              /\ r.tag \in {"Test", "Example"}
              /\ r.Name = Head(output_queue).display_name ]_vars

\* C22: after each job the collection loop processes, each of the pass, skip,
\* fail, crash and leakError counters equals the number of records with that
\* outcome appended to the Run Report so far.
C22_CountersMatchReport ==
    /\ passed_tests = Tally("PASS")
    /\ skipped_tests = Tally("SKIP")
    /\ failed_tests = Tally("FAIL")
    /\ crashed_tests = Tally("CRASH")
    /\ valgrind_errors = Tally("VALGR")

\* C23: the cancellation flag starts false; once true it stays true, whatever
\* runs, further interrupts included; and it changes only by the interrupt
\* handler setting it to true, a step that changes nothing else.
C23_FlagMonotonic ==
    /\ ~thread_exit
    /\ [][ thread_exit => thread_exit' ]_vars
    /\ [][ thread_exit' # thread_exit =>
              /\ thread_exit'
              /\ UNCHANGED <<config, pc, k, retval, files, queues, threads,
                             thread_job, launched, interrupted, dispatch, i,
                             counters>> ]_vars

C23_Witness ==
    /\ thread_exit
    /\ pc = "done"
    /\ interrupted # {}
    /\ \E w \in DOMAIN threads : threads[w] = "returned"

\* C24: a job that a worker takes from the job queue while the cancellation
\* flag is set is not launched: the step starts no subprocess and hands the
\* job to the result queue marked as interrupted; and no job so marked has
\* been launched at any time of the run.
C24_NoLaunchAfterCancellation ==
    /\ [][ ( /\ thread_exit
             /\ input_queue # <<>>
             /\ input_queue' = Tail(input_queue)
             /\ ~Head(input_queue).is_break )
           => /\ launched' = launched
              /\ \A w \in DOMAIN threads : threads'[w] = "run" => threads[w] = "run"
              /\ output_queue' = Append(output_queue,
                     [Head(input_queue) EXCEPT !.is_break = TRUE]) ]_vars
    /\ [](\A n \in interrupted : launched[n] = 0)

C24_Witness ==
    /\ pc = "done"
    /\ \E n \in 1..Len(dispatched) :
          /\ dispatched[n].display_name \in interrupted
          /\ ~dispatched[n].is_skip
          /\ launched[dispatched[n].display_name] = 0
    /\ \E n \in DispatchedNames : launched[n] = 1

\* C25: a job whose subprocess was running when the cancellation flag was
\* set is never handed back marked as interrupted; when the collection loop
\* takes it, the report gets one record of that job whose outcome is the one
\* of its exit code, the counter of that outcome goes up by one and the loop
\* goes on; a finished run holds exactly one record of it.
C25_InFlightJobsRecorded ==
    /\ [](in_flight \cap interrupted = {})
    /\ [][ ( /\ pc = "collect"
             /\ i' = i + 1
             /\ ~Head(output_queue).is_break
             /\ Head(output_queue).display_name \in in_flight )
           => LET job == Head(output_queue)
                  r == xml_results_file'[Len(xml_results_file')]
              IN  /\ pc' = "collect"
                  /\ Len(xml_results_file') = Len(xml_results_file) + 1
                  /\ r.tag \in {"Test", "Example"}
                  /\ r.Name = job.display_name
                  /\ r.Result = Status(job)
                  /\ passed_tests' = passed_tests + Count("PASS", job)
                  /\ failed_tests' = failed_tests + Count("FAIL", job)
                  /\ crashed_tests' = crashed_tests + Count("CRASH", job)
                  /\ valgrind_errors' = valgrind_errors + Count("VALGR", job)
                  /\ skipped_tests' = skipped_tests ]_vars
    /\ [](pc = "done" => \A n \in in_flight : Len(RecordsOf(n)) = 1)

\* C26: no job is launched more than once in a run, whatever its exit code;
\* the job queue grows only by the main thread putting a sentinel or a job
\* whose name it has not put before, never by a worker; and no name is on
\* the list of everything put on the job queue twice.
C26_NoRetry ==
    /\ [](\A n \in Names : launched[n] <= 1)
    /\ [][ Len(input_queue') > Len(input_queue)
           => /\ pc \in {"suites", "examples", "pyexamples", "sentinels"}
              /\ threads' = threads
              /\ input_queue' = Append(input_queue, enqueued'[Len(enqueued')])
              /\ LET job == enqueued'[Len(enqueued')] IN
                 job.is_break \/ job.display_name \notin DispatchedNames ]_vars
    /\ [](\A a, b \in 1..Len(enqueued) :
             ( /\ ~enqueued[a].is_break
               /\ enqueued[a].display_name = enqueued[b].display_name ) => a = b)

C26_Witness ==
    /\ pc = "done"
    /\ \E n \in DispatchedNames :
          launched[n] = 1 /\ \E x \in 1..Len(UnitRecords) :
              UnitRecords[x].Name = n /\ UnitRecords[x].Result = "FAIL"
    /\ \E n \in DispatchedNames :
          launched[n] = 1 /\ \E x \in 1..Len(UnitRecords) :
              UnitRecords[x].Name = n /\ UnitRecords[x].Result = "CRASH"
    /\ \E n \in DispatchedNames :
          launched[n] = 1 /\ \E x \in 1..Len(UnitRecords) :
              UnitRecords[x].Name = n /\ UnitRecords[x].Result = "VALGR"

\* C27: the collection loop goes on after it takes a job that ended with
\* Fail, Crash or LeakCheckError; and a run that was not cancelled ends with
\* every dispatched job launched unless skipped, one record per job in the
\* report, and the end marker written last.
C27_UnitOutcomesNeverAbort ==
    /\ [][ ( /\ pc = "collect"
             /\ i' = i + 1
             /\ ~Head(output_queue).is_break
             /\ Status(Head(output_queue)) \in {"FAIL", "CRASH", "VALGR"} )
           => pc' = "collect" ]_vars
    /\ []( pc \in {"done", "raised"} /\ ~thread_exit
           => /\ \A n \in 1..Len(dispatched) :
                 /\ Len(RecordsOf(dispatched[n].display_name)) = 1
                 /\ dispatched[n].is_skip
                    \/ launched[dispatched[n].display_name] = 1
              /\ xml_results_file[Len(xml_results_file)] = EndMarker )

\* C28: without cancellation a worker that takes a skipped job from the job
\* queue puts it on the results queue as it is and launches nothing; the
\* collection loop, taking it, appends one Skip record with the job's skip
\* reason and adds one to the skip counter alone; and when the run is over
\* every skipped job has exactly one record, a Skip record with its reason,
\* and the skip counter is the number of skipped jobs.
C28_SkippedJobsAccounted ==
    /\ [][ ( /\ ~thread_exit
             /\ input_queue # <<>>
             /\ input_queue' = Tail(input_queue)
             /\ Head(input_queue).is_skip )
           => /\ output_queue' = Append(output_queue, Head(input_queue))
              /\ launched' = launched ]_vars
    /\ [][ ( /\ pc = "collect"
             /\ i' = i + 1
             /\ ~Head(output_queue).is_break
             /\ Head(output_queue).is_skip )
           => LET job == Head(output_queue)
                  r == xml_results_file'[Len(xml_results_file')]
              IN  /\ Len(xml_results_file') = Len(xml_results_file) + 1
                  /\ r.Name = job.display_name
                  /\ r.Result = "SKIP"
                  /\ r.Reason = job.skip_reason
                  /\ skipped_tests' = skipped_tests + 1
                  /\ UNCHANGED <<passed_tests, failed_tests, crashed_tests,
                                 valgrind_errors>> ]_vars
    /\ []( pc \in {"done", "raised"} /\ ~thread_exit
           => /\ \A n \in 1..Len(dispatched) :
                 dispatched[n].is_skip
                 => LET recs == RecordsOf(dispatched[n].display_name) IN
                    /\ Len(recs) = 1
                    /\ recs[1].Result = "SKIP"
                    /\ recs[1].Reason = dispatched[n].skip_reason
              /\ skipped_tests =
                   Cardinality({ n \in 1..Len(dispatched) : dispatched[n].is_skip }) )

\* C29 as stated: every record of the report carries kind, name, outcome and
\* elapsed time, and a reason exactly when its outcome is Skip.
C29_EveryRecordHasElapsedTime ==
    \A x \in 1..Len(UnitRecords) :
        LET r == UnitRecords[x] IN
        /\ r.tag \in {"Test", "Example"}
        /\ r.Name \in DispatchedNames
        /\ r.Result \in {"PASS", "FAIL", "VALGR", "SKIP", "CRASH"}
        /\ r.Time
        /\ r.Reason # NoField <=> r.Result = "SKIP"

\* C29 (amended): what the collection loop writes between the markers is, per
\* job, one of: an example record with kind, name, outcome, elapsed time and
\* a reason exactly when the outcome is Skip; a suite record the loop
\* composes itself, Skip with the reason or Crash without one, with kind,
\* name and outcome but no elapsed time; or the result document of a suite
\* that exited 0, 1 or 2, copied as the suite left it.  The loop composes the
\* record itself for every example and for every suite that was skipped or
\* exited with another code.
C29_RecordShape ==
    /\ [](\A x \in 1..Len(UnitItems) :
            LET r == UnitItems[x] IN
            \/ /\ r.tag = "Example"
               /\ r.Name \in DispatchedNames
               /\ r.Result \in {"PASS", "FAIL", "VALGR", "SKIP", "CRASH"}
               /\ r.Time
               /\ r.Reason # NoField <=> r.Result = "SKIP"
            \/ /\ r.tag = "Test"
               /\ r.Name \in DispatchedNames
               /\ r.Result \in {"SKIP", "CRASH"}
               /\ ~r.Time
               /\ r.Reason # NoField <=> r.Result = "SKIP"
            \/ /\ r.tag = "Test"
               /\ r.Name \in DispatchedNames
               /\ r.Result \in {"PASS", "FAIL", "VALGR"}
               /\ r.Time
               /\ r.Reason = NoField
            \/ r = Garbage)
    /\ [][ ( /\ pc = "collect"
             /\ i' = i + 1
             /\ ~Head(output_queue).is_break
             /\ \/ IsExampleJob(Head(output_queue))
                \/ Head(output_queue).is_skip
                \/ Head(output_queue).returncode \notin {0, 1, 2} )
           => LET job == Head(output_queue)
                  r == xml_results_file'[Len(xml_results_file')]
              IN  /\ Len(xml_results_file') = Len(xml_results_file) + 1
                  /\ r.tag = IF IsExampleJob(job) THEN "Example" ELSE "Test"
                  /\ r.Name = job.display_name
                  /\ r.Result = Status(job)
                  /\ r.Time <=> IsExampleJob(job)
                  /\ r.Reason = IF job.is_skip THEN job.skip_reason ELSE NoField ]_vars

C29_Witness ==
    /\ pc = "done"
    /\ \E x \in 1..Len(UnitRecords) :
          LET r == UnitRecords[x] IN
          r.tag = "Test" /\ r.Result = "CRASH" /\ ~r.Time /\ r.Reason = NoField
    /\ \E x \in 1..Len(UnitRecords) :
          LET r == UnitRecords[x] IN
          r.tag = "Example" /\ r.Result = "SKIP" /\ r.Time /\ r.Reason # NoField
    /\ \E x \in 1..Len(UnitRecords) :
          LET r == UnitRecords[x] IN
          r.tag = "Example" /\ r.Result = "FAIL" /\ r.Time /\ r.Reason = NoField

C31_HungSubprocessStallsOneWorker ==
    \A w \in DOMAIN threads :
        ( /\ Len(threads) >= 2
          /\ threads[w] = "run"
          /\ ~thread_exit
          /\ ~ENABLED MainStep
          /\ \A v \in DOMAIN threads \ {w} :
                ~ENABLED (WorkerGet(v) \/ WorkerLaunchRaises(v) \/ WorkerFinish(v)) )
        => /\ \A n \in DispatchedNames \ {thread_job[w].display_name} :
                 Len(RecordsOf(n)) = 1
           /\ \A x \in 1..Len(xml_results_file) : xml_results_file[x] # EndMarker

\* C32: when rerun-failed mode is asked for and the report with the greatest
\* file name in TMP_OUTPUT_DIR has no end marker, the run ends with the
\* loader's failure status: no skip list is taken from that report or from an
\* older one, no report is created, no worker is started and no job is
\* dispatched.
C32_PartialReportStopsRerun ==
    ( /\ args.rerun_failed
      /\ previous_results # {}
      /\ EndMarker \notin Range(LatestResultFile(previous_results).contents) )
    => /\ pc \in {"build", "rerun", "exit"}
       /\ (pc = "exit" /\ testpy_output_dir) => retval = -1
       /\ previously_run_tests_to_skip = NothingPrevious
       /\ xml_results_file = <<>>
       /\ threads = <<>>
       /\ input_queue = <<>> /\ dispatched = <<>> /\ jobs = 0

C32_Witness ==
    /\ args.rerun_failed
    /\ Cardinality(previous_results) = 2
    /\ EndMarker \notin Range(LatestResultFile(previous_results).contents)
    /\ \E f \in previous_results :
          f # LatestResultFile(previous_results) /\ ParseOK(f.contents)
    /\ pc = "exit" /\ retval = -1

\* C33: when the collection loop has taken a job, the list of the jobs whose
\* captured output is printed on request holds the job exactly once if it was
\* executed and ended with Fail, Crash or LeakCheckError, and not at all if
\* it passed or was skipped.
C33_FailedJobsListsNonPassingOnce ==
    [][ ( /\ pc = "collect"
          /\ i' = i + 1
          /\ ~Head(output_queue).is_break )
        => Len(SelectSeq(failed_jobs',
                         LAMBDA x : x = Head(output_queue).display_name))
             = IF Status(Head(output_queue)) \in {"FAIL", "CRASH", "VALGR"}
               THEN 1 ELSE 0 ]_vars

\* C34: when the collection loop takes a suite job that was executed and
\* exited with code 2, it appends one record to the report, the only record
\* of that display name, whose outcome is the leak-check error value, and it
\* adds one to the leak-check error counter and nothing to the others.
C34_LeakCheckSuiteRecord ==
    [][ ( /\ pc = "collect"
          /\ i' = i + 1
          /\ ~Head(output_queue).is_break
          /\ ~Head(output_queue).is_skip
          /\ ~IsExampleJob(Head(output_queue))
          /\ Head(output_queue).returncode = 2 )
        => LET r == xml_results_file'[Len(xml_results_file')] IN
           /\ Len(xml_results_file') = Len(xml_results_file) + 1
           /\ r.tag = "Test"
           /\ r.Name = Head(output_queue).display_name
           /\ r.Result = "VALGR"
           /\ Len(SelectSeq(xml_results_file',
                  LAMBDA x : x.Name = Head(output_queue).display_name)) = 1
           /\ valgrind_errors' = valgrind_errors + 1
           /\ UNCHANGED <<passed_tests, failed_tests, crashed_tests, skipped_tests>>
           /\ pc' = "collect" ]_vars

----------------------------------------------------------------------------
(* Runs with --pyexample: one scripted example named on the command line,
   runnable or not, against a catalog that lists the same script in the
   TAKES_FOREVER tier and a prior report that records it as passed *)

ExplicitInit ==
    /\ args \in { Args(rerun_failed, valgrind, fullness, process_limit, FALSE, pyexample) :
                    rerun_failed \in BOOLEAN, valgrind \in BOOLEAN,
                    fullness \in Fullness, process_limit \in {0, 1},
                    pyexample \in {PyExamplePool[1], "no-such-script.py"} }
    /\ ENABLE_PYTHON_BINDINGS \in BOOLEAN
    /\ host_processors = MaxProcessors
    /\ suite_list = SubSeq(SuitePool, 1, 1)
    /\ example_tests = << [ name |-> ExamplePool[1], do_run |-> TRUE,
                            do_valgrind_run |-> TRUE, fullness |-> "QUICK" ] >>
    /\ python_tests = << [ name |-> PyExamplePool[1], do_run |-> TRUE,
                           fullness |-> "TAKES_FOREVER" ] >>
    /\ previous_results \in
          { {},
            { PriorReport(1, <<Passed(PyExamplePool[1]), Passed(SuitePool[1])>>) } }
    /\ ~args.rerun_failed => previous_results = {}
    /\ InitRun

ExplicitNext ==
    \/ BuildFails
    \/ BuildSucceeds
    \/ LoadPrevious
    \/ CreateReport
    \/ StartThreads
    \/ DispatchSuite
    \/ DispatchExample
    \/ DispatchPyExample
    \/ PutSentinel
    \/ CollectBreak
    \/ Collect
    \/ JoinThreads
    \/ WriteEndMarker
    \/ Return
    \/ \E w \in DOMAIN threads : WorkerGet(w)
    \/ \E w \in DOMAIN threads : WorkerLaunchRaises(w)
    \/ \E w \in DOMAIN threads : WorkerFinish(w)
    \/ Interrupt

ExplicitSpec == ExplicitInit /\ [][ExplicitNext]_vars

\* C35: in a run that names one runnable scripted example, once the dispatch
\* loops are over exactly one job has been dispatched, it is the job of that
\* example and its skip flag is not set, whatever the valgrind, bindings,
\* fullness and rerun-failed settings; no job with the skip flag is ever on a
\* queue, nothing is counted as skipped, and an uncancelled run that ends
\* has launched the example once.
C35_ExplicitPyExampleUnconditional ==
    /\ ( /\ args.pyexample \in ns3_runnable_scripts
         /\ pc \in {"sentinels", "collect", "close", "summary", "done"} )
       => /\ Len(dispatched) = 1
          /\ dispatched[1].display_name = args.pyexample
          /\ dispatched[1].is_pyexample
          /\ ~dispatched[1].is_skip
    /\ \A n \in 1..Len(enqueued) : ~enqueued[n].is_skip
    /\ \A n \in 1..Len(output_queue) : ~output_queue[n].is_skip
    /\ skipped_tests = 0
    /\ ( /\ args.pyexample \in ns3_runnable_scripts
         /\ pc = "done" /\ ~thread_exit )
       => launched[args.pyexample] = 1 /\ Len(RecordsOf(args.pyexample)) = 1

C35_Witness ==
    /\ pc = "done"
    /\ args.valgrind
    /\ ~ENABLE_PYTHON_BINDINGS
    /\ args.fullness = "QUICK"
    /\ args.rerun_failed
    /\ args.pyexample \in Range(previously_run_tests_to_skip.example)
    /\ launched[args.pyexample] = 1
    /\ Len(dispatched) = 1
    /\ \E x \in 1..Len(UnitRecords) :
          UnitRecords[x].Name = args.pyexample /\ UnitRecords[x].Result = "PASS"

\* C36: on the job queue no real job stands behind a sentinel, and while a
\* real job is on the job queue no worker has taken a sentinel; hence, when
\* neither the main thread nor a worker has a step left, the job queue is
\* empty (every real job was taken by some worker) and every worker has
\* taken its sentinel and returned.
C36_SentinelsNeverOvertakeWork ==
    /\ \A a, b \in 1..Len(input_queue) :
          (a < b /\ input_queue[a].is_break) => input_queue[b].is_break
    /\ (\E w \in DOMAIN threads : threads[w] = "returned")
          => \A n \in 1..Len(input_queue) : input_queue[n].is_break
    /\ ( /\ ~ENABLED MainStep
         /\ \A w \in DOMAIN threads :
               ~ENABLED (WorkerGet(w) \/ WorkerLaunchRaises(w) \/ WorkerFinish(w)) )
       => /\ input_queue = <<>>
          /\ \A w \in DOMAIN threads : threads[w] = "returned"

----------------------------------------------------------------------------
(* Runs over the values of --jobs (an int, default 0) and of the host's
   processor count *)

LimitInit ==
    /\ args \in { Args(FALSE, FALSE, "QUICK", process_limit, FALSE, "") :
                    process_limit \in -1..(MaxProcessors + 1) }
    /\ ENABLE_PYTHON_BINDINGS = TRUE
    /\ host_processors \in 1..MaxProcessors
    /\ suite_list = <<>>
    /\ example_tests = << [ name |-> ExamplePool[1], do_run |-> TRUE,
                            do_valgrind_run |-> TRUE, fullness |-> "QUICK" ],
                          [ name |-> ExamplePool[2], do_run |-> TRUE,
                            do_valgrind_run |-> TRUE, fullness |-> "EXTENSIVE" ] >>
    /\ python_tests = << [ name |-> PyExamplePool[1], do_run |-> TRUE,
                           fullness |-> "QUICK" ] >>
    /\ previous_results = {}
    /\ InitRun

LimitNext ==
    \/ BuildSucceeds
    \/ LoadPrevious
    \/ CreateReport
    \/ StartThreads
    \/ DispatchSuite
    \/ DispatchExample
    \/ DispatchPyExample
    \/ PutSentinel
    \/ Collect
    \/ JoinThreads
    \/ WriteEndMarker
    \/ Return
    \/ \E w \in DOMAIN threads : WorkerGet(w)
    \/ \E w \in DOMAIN threads : WorkerFinish(w)

LimitSpec == LimitInit /\ [][LimitNext]_vars

\* C37: once the workers are started their number is the host's processor
\* count when no limit is given and the smaller of processor count and limit
\* when one is given; it is at least one for every value of the limit; and
\* the run is never stuck with jobs on the job queue and no step left.
C37_WorkerCountBounds ==
    /\ pc \notin {"build", "rerun", "create", "start", "exit"}
       => /\ Len(threads) =
                IF args.process_limit = 0 THEN host_processors
                ELSE IF host_processors < args.process_limit THEN host_processors
                ELSE args.process_limit
          /\ Len(threads) >= 1
    /\ input_queue # <<>> => ENABLED LimitNext

----------------------------------------------------------------------------
(* Runs over a catalog whose conditions may fail to evaluate: do_run is a
   string of examples-to-run.py handed to eval() *)

\* lines 1759-1767: eval(do_run) raises for the entry the native example
\* loop is at; the exception leaves run_tests() before any sentinel is put,
\* and the interpreter, having printed it, waits for the worker threads
\* (they are not daemon threads) before it exits with status 1
DispatchExampleRaises ==
    /\ pc = "examples"
    /\ args.pyexample = ""
    /\ k <= Len(example_tests)
    /\ pc' = "raised"
    /\ retval' = 1
    /\ UNCHANGED <<config, k, files, queues, workers, thread_exit, dispatch, i,
                   counters>>

CatalogFaultInit ==
    /\ args \in { Args(FALSE, valgrind, fullness, process_limit, FALSE, "") :
                    valgrind \in BOOLEAN, fullness \in {"QUICK", "EXTENSIVE"},
                    process_limit \in {0, 1} }
    /\ ENABLE_PYTHON_BINDINGS = TRUE
    /\ host_processors = MaxProcessors
    /\ suite_list = <<>>
    /\ example_tests = << [ name |-> ExamplePool[1], do_run |-> TRUE,
                            do_valgrind_run |-> TRUE, fullness |-> "QUICK" ],
                          [ name |-> ExamplePool[2], do_run |-> TRUE,
                            do_valgrind_run |-> FALSE, fullness |-> "EXTENSIVE" ] >>
    /\ python_tests = << [ name |-> PyExamplePool[1], do_run |-> TRUE,
                           fullness |-> "QUICK" ] >>
    /\ previous_results = {}
    /\ InitRun

CatalogFaultNext ==
    \/ BuildSucceeds
    \/ LoadPrevious
    \/ CreateReport
    \/ StartThreads
    \/ DispatchSuite
    \/ DispatchExample
    \/ DispatchExampleRaises
    \/ DispatchPyExample
    \/ PutSentinel
    \/ Collect
    \/ JoinThreads
    \/ WriteEndMarker
    \/ Return
    \/ \E w \in DOMAIN threads : WorkerGet(w)
    \/ \E w \in DOMAIN threads : WorkerFinish(w)

CatalogFaultSpec == CatalogFaultInit /\ [][CatalogFaultNext]_vars

\* C38: when the evaluation of an example's condition has raised during
\* dispatch and the workers have no step left, every worker has ended: none
\* waits on the job queue, so the process ends, with an error status.
C38_CatalogFaultTerminates ==
    ( /\ pc = "raised"
      /\ \A w \in DOMAIN threads : ~ENABLED (WorkerGet(w) \/ WorkerFinish(w)) )
    => /\ \A w \in DOMAIN threads : threads[w] = "returned"
       /\ retval # 0

----------------------------------------------------------------------------
(* Chains of runs: a first run over a catalog of one suite and one native
   example with one worker, then --rerun-failed runs of the same catalog.
   The report a run leaves in TMP_OUTPUT_DIR is kept for the runs after it,
   together with the names that run dequeued after a cancellation. *)

\* the process has ended: run_tests() returned, or an exception ended the
\* main thread and every worker has returned from run()
ProcessEnded ==
    \/ pc = "done"
    \/ pc = "raised" /\ \A w \in DOMAIN threads : threads[w] = "returned"

\* test.py is started again with --rerun-failed; the report of the run that
\* ended is one more file of TMP_OUTPUT_DIR, older than the one to come
NextRun ==
    /\ ProcessEnded
    /\ xml_results_file # <<>>
    /\ Cardinality(previous_results) + 1 < CurrentBasename
    /\ previous_results' = previous_results \cup
          { [ basename |-> Cardinality(previous_results) + 1,
              contents |-> xml_results_file,
              interrupted |-> interrupted,
              cancelled |-> thread_exit ] }
    /\ args' = [args EXCEPT !.rerun_failed = TRUE]
    /\ pc' = "build"
    /\ k' = 1
    /\ retval' = 0
    /\ previously_run_tests_to_skip' = [test |-> <<>>, example |-> <<>>]
    /\ testpy_output_dir' = FALSE
    /\ tmp_files' = [n \in Names |-> "absent"]
    /\ xml_results_file' = <<>>
    /\ input_queue' = <<>>
    /\ output_queue' = <<>>
    /\ threads' = <<>>
    /\ thread_job' = <<>>
    /\ thread_exit' = FALSE
    /\ jobs' = 0
    /\ total_tests' = 0
    /\ i' = 0
    /\ passed_tests' = 0
    /\ failed_tests' = 0
    /\ crashed_tests' = 0
    /\ valgrind_errors' = 0
    /\ skipped_tests' = 0
    /\ failed_jobs' = <<>>
    /\ launched' = [n \in Names |-> 0]
    /\ dispatched' = <<>>
    /\ enqueued' = <<>>
    /\ interrupted' = {}
    /\ in_flight' = {}
    /\ UNCHANGED <<ENABLE_PYTHON_BINDINGS, host_processors, suite_list,
                   example_tests, python_tests>>

ChainInit ==
    /\ args \in { Args(FALSE, valgrind, "EXTENSIVE", 1, FALSE, "") :
                    valgrind \in BOOLEAN }
    /\ ENABLE_PYTHON_BINDINGS = FALSE
    /\ host_processors = MaxProcessors
    /\ suite_list = SubSeq(SuitePool, 1, 1)
    /\ example_tests = [ n \in 1..1 |->
            [ name |-> ExamplePool[n], do_run |-> TRUE, do_valgrind_run |-> TRUE,
              fullness |-> "QUICK" ] ]
    /\ python_tests = <<>>
    /\ previous_results = {}
    /\ InitRun

ChainNext ==
    \/ Next
    \/ NextRun

ChainSpec == ChainInit /\ [][ChainNext]_vars

\* a later run of the chain that got past the build is over: its process has
\* ended, or its loader called exit(-1)
LaterRunOver == ProcessEnded \/ (pc = "exit" /\ retval = -1)

\* C39: over a chain of rerun-failed runs with no cancellation, a suite or
\* native example that the report of some earlier run of the chain records as
\* PASS or SKIP is never launched in a later run, and the later run, once it
\* is over, has recorded it as SKIP
C39_RerunChainMonotonic ==
    \A f \in previous_results :
        \A m \in 1..Len(f.contents) :
            ( /\ f.contents[m].tag \in {"Test", "Example"}
              /\ f.contents[m].Result \in {"PASS", "SKIP"}
              /\ \A g \in previous_results : ~g.cancelled
              /\ ~thread_exit )
            => /\ launched[f.contents[m].Name] = 0
               /\ LaterRunOver =>
                     \E n \in 1..Len(RecordsOf(f.contents[m].Name)) :
                         RecordsOf(f.contents[m].Name)[n].Result = "SKIP"

\* the report of the run just before this one, where there is one
PrecedingRun(f) ==
    /\ f \in previous_results
    /\ \A g \in previous_results : g.basename <= f.basename

\* C40: a unit that the run just before a rerun-failed run dequeued after a
\* cancellation has no record in that run's report, is in neither skip list
\* the loader returns, and is dispatched as the job the loops build without
\* any prior report, never with the rerun reason
C40_InterruptedWorkStaysEligible ==
    \A f \in previous_results :
        PrecedingRun(f) =>
            \A name \in f.interrupted :
                /\ \A m \in 1..Len(f.contents) : f.contents[m].Name # name
                /\ \A m \in 1..Len(previously_run_tests_to_skip.test) :
                      previously_run_tests_to_skip.test[m] # name
                /\ \A m \in 1..Len(previously_run_tests_to_skip.example) :
                      previously_run_tests_to_skip.example[m] # name
                /\ \A n \in 1..Len(dispatched) :
                      dispatched[n].display_name = name =>
                          /\ dispatched[n] = CatalogJob(n, NothingPrevious)
                          /\ dispatched[n].skip_reason # ReasonRerun

\* a unit the cancelled run passed over is launched by the rerun that
\* follows, which skips the unit the cancelled run recorded as Pass
C40_Witness ==
    /\ args.rerun_failed
    /\ pc = "done"
    /\ \E f \in previous_results :
          /\ PrecedingRun(f)
          /\ f.cancelled
          /\ ExamplePool[1] \in f.interrupted
          /\ \E m \in 1..Len(f.contents) :
                /\ f.contents[m].Name = SuitePool[1]
                /\ f.contents[m].Result = "PASS"
    /\ launched[ExamplePool[1]] = 1
    /\ launched[SuitePool[1]] = 0
    /\ \E n \in 1..Len(dispatched) :
          /\ dispatched[n].display_name = SuitePool[1]
          /\ dispatched[n].skip_reason = ReasonRerun

====
